---------------------------- MODULE Spec2Model ----------------------------
(***************************************************************************)
(* The prefix-indexed suggestion engine of Autocomplete-Grafos: the        *)
(* WeightedTrie class of trie.py and of main_gram.py (a character trie and *)
(* an n-gram table behind one query, get_suggestions) and the loaders of   *)
(* the main_gram.py dashboard.                                             *)
(*                                                                         *)
(* A string is a sequence of characters; a character is written as a       *)
(* one-element name ("a", " ", "e_acute" for U+00E9, "acute" for the       *)
(* combining mark U+0301) and ordered by its code point, as Python orders  *)
(* str values.                                                             *)
(***************************************************************************)
EXTENDS Integers, Sequences, FiniteSets, TLC

VARIABLES
    variant,    \* which file's WeightedTrie runs: "trie" or "main_gram"
    root,       \* the node tree: path from the root |-> TrieNode
    ngrams,     \* self.ngrams: leading word |-> list of entries
    inserted,   \* history: the words passed to insert so far
    op,         \* the last operation that ran
    text,       \* the argument of the last get_suggestions call
    result,     \* the list the last get_suggestions call returned
    err         \* the exception that ended the program, or "none"

vars == <<variant, root, ngrams, inserted, op, text, result, err>>

---------------------------------------------------------------------------
\* Bounds of the model.

\* Insert is offered while fewer than MaxWords distinct words were inserted.
MaxWords == 2

\* insert_ngram and load_ngrams are offered while the table holds fewer
\* than MaxNgrams entries.
MaxNgrams == 2

---------------------------------------------------------------------------
\* Characters and strings.

\* str.isspace, for the characters of the model.
IsSpace(c) == c \in {" ", "\t", "\n"}

\* ord(c): Python compares strings code point by code point.
CodePoint(c) ==
    CASE c = "\t" -> 9
      [] c = "\n" -> 10
      [] c = " " -> 32
      [] c = "1" -> 49
      [] c = "2" -> 50
      [] c = "E" -> 69
      [] c = "a" -> 97
      [] c = "e" -> 101
      [] c = "x" -> 120
      [] c = "|" -> 124
      [] c = "e_acute" -> 233
      [] c = "acute" -> 769

\* a < b for two str values.
RECURSIVE str_lt(_, _)
str_lt(a, b) ==
    IF b = <<>> THEN FALSE
    ELSE IF a = <<>> THEN TRUE
    ELSE IF CodePoint(Head(a)) # CodePoint(Head(b))
         THEN CodePoint(Head(a)) < CodePoint(Head(b))
         ELSE str_lt(Tail(a), Tail(b))

\* s[:n]
Take(s, n) == IF n >= Len(s) THEN s ELSE SubSeq(s, 1, n)

\* s.startswith(p)
StartsWith(s, p) == Len(p) <= Len(s) /\ SubSeq(s, 1, Len(p)) = p

RECURSIVE lstrip(_)
lstrip(s) ==
    IF s # <<>> /\ IsSpace(Head(s)) THEN lstrip(Tail(s)) ELSE s

RECURSIVE rstrip(_)
rstrip(s) ==
    IF s # <<>> /\ IsSpace(s[Len(s)]) THEN rstrip(SubSeq(s, 1, Len(s) - 1)) ELSE s

\* str.strip()
strip(s) == rstrip(lstrip(s))

\* The scan of str.split(): cur is the token being read, out the tokens read.
RECURSIVE split_loop(_, _, _)
split_loop(s, cur, out) ==
    IF s = <<>> THEN (IF cur = <<>> THEN out ELSE Append(out, cur))
    ELSE IF IsSpace(Head(s))
         THEN split_loop(Tail(s), <<>>, IF cur = <<>> THEN out ELSE Append(out, cur))
         ELSE split_loop(Tail(s), Append(cur, Head(s)), out)

\* str.split(" "): every single space separates, empty tokens are kept.
split_on_space(s) ==
    LET RECURSIVE loop(_, _, _)
        loop(r, cur, out) ==
            IF r = <<>> THEN Append(out, cur)
            ELSE IF Head(r) = " " THEN loop(Tail(r), <<>>, Append(out, cur))
                 ELSE loop(Tail(r), Append(cur, Head(r)), out)
    IN loop(s, <<>>, <<>>)

\* str.split(): the maximal runs of non-whitespace characters.
split(s) == split_loop(s, <<>>, <<>>)

\* " ".join(words)
RECURSIVE join(_)
join(words) ==
    IF words = <<>> THEN <<>>
    ELSE IF Len(words) = 1 THEN words[1]
    ELSE words[1] \o <<" ">> \o join(Tail(words))

---------------------------------------------------------------------------
\* TrieNode and WeightedTrie.insert.

\* float('inf'), the min_distance of a fresh node.
Inf == -1

\* min(a, b) over the integers and float('inf').
min(a, b) ==
    IF a = Inf THEN b
    ELSE IF b = Inf THEN a
    ELSE IF b < a THEN b ELSE a

\* TrieNode(): children lists the keys of the dict in insertion order; the
\* child under key c of the node at path p is the node at path p \o <<c>>.
TrieNode == [children |-> <<>>, is_end |-> FALSE, min_distance |-> Inf]

\* char in node.children
HasChild(n, char) == \E i \in 1..Len(n.children) : n.children[i] = char

\* The loop of insert with node at path `node`, about to read word[i]
\* (i counts from 1, Python's i from 0).
RECURSIVE insert_loop(_, _, _, _)
insert_loop(t, node, word, i) ==
    IF i > Len(word)
    THEN [t EXCEPT ![node].is_end = TRUE, ![node].min_distance = 0]
    ELSE LET remaining == Len(word) - (i - 1)
             char == word[i]
             child == Append(node, char)
             t1 == [t EXCEPT ![node].min_distance = min(@, remaining)]
             t2 == IF HasChild(t1[node], char) THEN t1
                   ELSE [t1 EXCEPT ![node].children = Append(@, char)]
                            @@ (child :> TrieNode)
         IN insert_loop(t2, child, word, i + 1)

\* insert without the min: min_distance is overwritten by `remaining`.
insert_overwrite(t, word) ==
    LET RECURSIVE loop(_, _, _)
        loop(u, node, i) ==
            IF i > Len(word)
            THEN [u EXCEPT ![node].is_end = TRUE, ![node].min_distance = 0]
            ELSE LET child == Append(node, word[i])
                     u1 == [u EXCEPT ![node].min_distance = Len(word) - (i - 1)]
                     u2 == IF HasChild(u1[node], word[i]) THEN u1
                           ELSE [u1 EXCEPT ![node].children = Append(@, word[i])]
                                    @@ (child :> TrieNode)
                 IN loop(u2, child, i + 1)
    IN loop(t, <<>>, 1)

\* insert without its last line: the node the word ends at keeps the
\* min_distance it had.
insert_no_reset(t, word) ==
    LET RECURSIVE loop(_, _, _)
        loop(u, node, i) ==
            IF i > Len(word)
            THEN [u EXCEPT ![node].is_end = TRUE]
            ELSE LET child == Append(node, word[i])
                     u1 == [u EXCEPT ![node].min_distance =
                                         min(@, Len(word) - (i - 1))]
                     u2 == IF HasChild(u1[node], word[i]) THEN u1
                           ELSE [u1 EXCEPT ![node].children = Append(@, word[i])]
                                    @@ (child :> TrieNode)
                 IN loop(u2, child, i + 1)
    IN loop(t, <<>>, 1)

\* WeightedTrie.insert(word): the tree after the call.
insert(t, word) == insert_loop(t, <<>>, word, 1)

---------------------------------------------------------------------------
\* Text normalization and the n-gram table.

\* str.lower(), one character.
lower(c) == IF c = "E" THEN "e" ELSE c

\* unicodedata.normalize('NFKD', c): the canonical decomposition.
nfkd(c) == IF c = "e_acute" THEN <<"e", "acute">> ELSE <<c>>

\* unicodedata.combining(c) is non-zero.
combining(c) == c = "acute"

\* ''.join(c for c in unicodedata.normalize('NFKD', key.lower())
\*         if not unicodedata.combining(c))
RECURSIVE normalize(_)
normalize(s) ==
    IF s = <<>> THEN <<>>
    ELSE SelectSeq(nfkd(lower(Head(s))), LAMBDA c : ~combining(c))
             \o normalize(Tail(s))

\* self.ngrams.get(key, []): a lookup that adds no key.
ngrams_get(ng, key) == IF key \in DOMAIN ng THEN ng[key] ELSE <<>>

\* The number of entries of the table.
RECURSIVE entries(_)
entries(ng) ==
    IF DOMAIN ng = {} THEN 0
    ELSE LET k == CHOOSE k \in DOMAIN ng : TRUE
         IN Len(ng[k]) + entries([j \in DOMAIN ng \ {k} |-> ng[j]])

\* One step of list.sort(key=lambda x: -x[1]): x goes behind every entry
\* whose key is not greater than its own (the sort is stable).
RECURSIVE place_by_freq(_, _)
place_by_freq(sorted, x) ==
    IF sorted = <<>> THEN <<x>>
    ELSE IF -x.freq < -Head(sorted).freq
         THEN <<x>> \o sorted
         ELSE <<Head(sorted)>> \o place_by_freq(Tail(sorted), x)

\* The sort without the minus sign: ascending frequency.
RECURSIVE sort_by_freq_ascending(_)
sort_by_freq_ascending(bucket) ==
    LET RECURSIVE place(_, _)
        place(sorted, x) ==
            IF sorted = <<>> THEN <<x>>
            ELSE IF x.freq < Head(sorted).freq
                 THEN <<x>> \o sorted
                 ELSE <<Head(sorted)>> \o place(Tail(sorted), x)
    IN IF bucket = <<>> THEN <<>>
       ELSE place(sort_by_freq_ascending(SubSeq(bucket, 1, Len(bucket) - 1)),
                  bucket[Len(bucket)])

\* bucket.sort(key=lambda x: -x[1])
RECURSIVE sort_by_freq(_)
sort_by_freq(bucket) ==
    IF bucket = <<>> THEN <<>>
    ELSE place_by_freq(sort_by_freq(SubSeq(bucket, 1, Len(bucket) - 1)),
                       bucket[Len(bucket)])

\* self.ngrams[words[0]].append((key, frequency)) and the sort, on a
\* defaultdict(list). An entry is the pair (phrase, freq) and, as history,
\* seq: its rank among all entries in order of insertion.
append_and_sort(ng, first, key, frequency) ==
    LET entry == [phrase |-> key, freq |-> frequency, seq |-> entries(ng) + 1]
        bucket == sort_by_freq(Append(ngrams_get(ng, first), entry))
    IN [k \in DOMAIN ng \cup {first} |-> IF k = first THEN bucket ELSE ng[k]]

\* trie.py insert_ngram(words, frequency), words non-empty: the table after
\* the call. The phrase is normalized, the bucket key is words[0] as given.
insert_ngram(ng, words, frequency) ==
    append_and_sort(ng, words[1], normalize(join(words)), frequency)

\* main_gram.py insert_ngram(words, frequency), words non-empty.
gram_insert_ngram(ng, words, frequency) ==
    append_and_sort(ng, words[1], join(words), frequency)

\* [x[0] for x in bucket]
phrases(bucket) == [i \in 1..Len(bucket) |-> bucket[i].phrase]

---------------------------------------------------------------------------
\* The query.

\* The head count of trie.py: complete[:10].
K == 10

\* _collect_suggestions(node, current_prefix, suggestions): the list after
\* the call. The children are visited in the dict's order.
RECURSIVE collect_suggestions(_, _, _, _)
RECURSIVE collect_children(_, _, _, _, _)

\* _collect_suggestions that visits the children and never adds the node's
\* own word.
collect_below_only(t, node, current_prefix, suggestions) ==
    collect_children(t, node, current_prefix, suggestions, 1)

collect_suggestions(t, node, current_prefix, suggestions) ==
    collect_children(t, node, current_prefix,
        IF t[node].is_end
        THEN Append(suggestions, <<current_prefix, Len(current_prefix)>>)
        ELSE suggestions,
        1)

\* for char, child in node.children.items(), from the i-th item on.
collect_children(t, node, current_prefix, suggestions, i) ==
    IF i > Len(t[node].children) THEN suggestions
    ELSE LET char == t[node].children[i]
         IN collect_children(t, node, current_prefix,
                collect_suggestions(t, Append(node, char),
                                    Append(current_prefix, char), suggestions),
                i + 1)

\* key(x) < key(y) for key = lambda x: (len(x[0]) - len(prefix), x[0])
key_lt(x, y, prefix) ==
    LET kx == Len(x[1]) - Len(prefix)
        ky == Len(y[1]) - Len(prefix)
    IN kx < ky \/ (kx = ky /\ str_lt(x[1], y[1]))

\* One step of the stable sort of the suggestions.
RECURSIVE place_by_key(_, _, _)
place_by_key(sorted, x, prefix) ==
    IF sorted = <<>> THEN <<x>>
    ELSE IF key_lt(x, Head(sorted), prefix)
         THEN <<x>> \o sorted
         ELSE <<Head(sorted)>> \o place_by_key(Tail(sorted), x, prefix)

\* The sort with key = lambda x: x[0]: alphabetical only.
RECURSIVE sort_alphabetical(_, _)
sort_alphabetical(suggestions, prefix) ==
    LET RECURSIVE place(_, _)
        place(sorted, x) ==
            IF sorted = <<>> THEN <<x>>
            ELSE IF str_lt(x[1], Head(sorted)[1])
                 THEN <<x>> \o sorted
                 ELSE <<Head(sorted)>> \o place(Tail(sorted), x)
    IN IF suggestions = <<>> THEN <<>>
       ELSE place(sort_alphabetical(SubSeq(suggestions, 1, Len(suggestions) - 1),
                                    prefix),
                  suggestions[Len(suggestions)])

\* suggestions.sort(key=lambda x: (len(x[0]) - len(prefix), x[0]))
RECURSIVE sort_suggestions(_, _)
sort_suggestions(suggestions, prefix) ==
    IF suggestions = <<>> THEN <<>>
    ELSE place_by_key(
             sort_suggestions(SubSeq(suggestions, 1, Len(suggestions) - 1), prefix),
             suggestions[Len(suggestions)], prefix)

\* for char in words[-1]: the node the walk ends at, or found = FALSE when a
\* character has no edge.
RECURSIVE walk(_, _, _, _)
walk(t, node, token, i) ==
    IF i > Len(token) THEN [found |-> TRUE, node |-> node]
    ELSE IF ~HasChild(t[node], token[i]) THEN [found |-> FALSE, node |-> node]
    ELSE walk(t, Append(node, token[i]), token, i + 1)

\* complete without the sort: the words in the order of the traversal.
complete_unsorted(t, node, prefix) ==
    LET suggestions == collect_suggestions(t, node, prefix, <<>>)
    IN [i \in 1..Len(suggestions) |-> suggestions[i][1]]

\* complete = [x[0] for x in suggestions], after the collect and the sort.
complete(t, node, prefix) ==
    LET suggestions == sort_suggestions(
                           collect_suggestions(t, node, prefix, <<>>), prefix)
    IN [i \in 1..Len(suggestions) |-> suggestions[i][1]]

\* get_suggestions with words = prefix_stripped.split(" ") and no test of
\* len(words): the empty text has the one token "".
trie_get_suggestions_split_on_space(t, ng, prefix) ==
    LET words == split_on_space(strip(prefix))
        last == words[Len(words)]
        w == walk(t, <<>>, last, 1)
    IN IF ~w.found THEN phrases(ngrams_get(ng, last))
       ELSE Take(complete(t, w.node, prefix), K) \o phrases(ngrams_get(ng, last))

\* get_suggestions that returns [] on a prefix miss, as main.py does.
trie_get_suggestions_miss_empty(t, ng, prefix) ==
    LET words == split(strip(prefix))
    IN IF Len(words) = 0 THEN <<>>
       ELSE LET last == words[Len(words)]
                w == walk(t, <<>>, last, 1)
            IN IF ~w.found THEN <<>>
               ELSE Take(complete(t, w.node, prefix), K)
                        \o phrases(ngrams_get(ng, last))

\* get_suggestions that cuts the joined list, n-grams included, to K.
trie_get_suggestions_cut_all(t, ng, prefix) ==
    LET words == split(strip(prefix))
    IN IF Len(words) = 0 THEN <<>>
       ELSE LET last == words[Len(words)]
                w == walk(t, <<>>, last, 1)
            IN IF ~w.found THEN phrases(ngrams_get(ng, last))
               ELSE Take(complete(t, w.node, prefix)
                             \o phrases(ngrams_get(ng, last)), K)

\* trie.py get_suggestions(prefix): the list returned.
trie_get_suggestions(t, ng, prefix) ==
    LET prefix_stripped == strip(prefix)
        words == split(prefix_stripped)
    IN IF Len(words) = 0 THEN <<>>
       ELSE LET last == words[Len(words)]
                w == walk(t, <<>>, last, 1)
            IN IF ~w.found THEN phrases(ngrams_get(ng, last))
               ELSE Take(complete(t, w.node, prefix), K)
                        \o phrases(ngrams_get(ng, last))

\* main_gram.py get_suggestions(prefix): the list returned, with no cut.
gram_get_suggestions(t, ng, prefix) ==
    LET prefix_stripped == strip(prefix)
        words == split(prefix_stripped)
    IN IF Len(words) = 0 THEN <<>>
       ELSE LET last == words[Len(words)]
                w == walk(t, <<>>, last, 1)
            IN IF ~w.found THEN phrases(ngrams_get(ng, last))
               ELSE complete(t, w.node, prefix) \o phrases(ngrams_get(ng, last))

\* self.ngrams[key] on the defaultdict(list): an absent key is added with
\* an empty bucket.
table_after_index(ng, key) ==
    [k \in DOMAIN ng \cup {key} |-> IF k \in DOMAIN ng THEN ng[k] ELSE <<>>]

\* The table after self.ngrams.get(key, []): dict.get adds no key, also on
\* a defaultdict.
table_after_get(ng, key) == ng

\* The table after get_suggestions(prefix), in trie.py and in main_gram.py:
\* the call reads it once, by get, when the text has a token.
table_after_query(ng, prefix) ==
    LET words == split(strip(prefix))
    IN IF Len(words) = 0 THEN ng
       ELSE table_after_get(ng, words[Len(words)])

\* The tree after get_suggestions(prefix): the walk and _collect_suggestions
\* read children and is_end and assign to no node.
tree_after_query(t, prefix) == t

\* main.py get_suggestions cut to K, as trie.py cuts.
main_get_suggestions_cut(t, prefix) ==
    LET w == walk(t, <<>>, prefix, 1)
    IN IF ~w.found THEN <<>> ELSE Take(complete(t, w.node, prefix), K)

\* main.py get_suggestions(prefix): the list returned. The prefix is walked
\* as passed, with no strip and no split, and a miss returns [].
main_get_suggestions(t, prefix) ==
    LET w == walk(t, <<>>, prefix, 1)
    IN IF ~w.found THEN <<>> ELSE complete(t, w.node, prefix)

\* The get_suggestions of the running variant.
get_suggestions(v, t, ng, prefix) ==
    IF v = "trie" THEN trie_get_suggestions(t, ng, prefix)
    ELSE gram_get_suggestions(t, ng, prefix)

---------------------------------------------------------------------------
\* The loaders of the main_gram.py dashboard. They feed a WeightedTrie
\* through insert and insert_ngram only, so they are run here with the
\* class of either file: trie.py is the same class with the normalization
\* and the cut added, and has no loader of its own.

\* for word in words: self.trie.insert(word)
\* (u = u has TLC evaluate the tree after each insert before the next one
\* starts, instead of nesting the calls.)
RECURSIVE insert_all(_, _)
insert_all(t, words) ==
    IF words = <<>> THEN t
    ELSE LET u == insert(t, Head(words))
         IN IF u = u THEN insert_all(u, Tail(words)) ELSE u

\* [linha.strip() for linha in arquivo if linha.strip()]
RECURSIVE stripped_lines(_)
stripped_lines(arquivo) ==
    IF arquivo = <<>> THEN <<>>
    ELSE (IF strip(Head(arquivo)) = <<>> THEN <<>> ELSE <<strip(Head(arquivo))>>)
             \o stripped_lines(Tail(arquivo))

\* load_sample_data on the lines of a file: the tree after the call.
load_sample_data(t, arquivo) == insert_all(t, stripped_lines(arquivo))

\* int(token) for a token of decimal digits; ok = FALSE is ValueError.
RECURSIVE digits_value(_, _)
digits_value(token, acc) ==
    IF token = <<>> THEN acc
    ELSE digits_value(Tail(token), 10 * acc + (CodePoint(Head(token)) - 48))

parse_int(token) ==
    IF token # <<>> /\ \A i \in 1..Len(token) : token[i] \in {"1", "2"}
    THEN [ok |-> TRUE, value |-> digits_value(token, 0)]
    ELSE [ok |-> FALSE, value |-> 0]

\* parts[1:-4]
words_of(parts) == SubSeq(parts, 2, Len(parts) - 4)

\* The insert_ngram of the running variant, as called: words[0] of an empty
\* list raises IndexError before the table is touched.
call_insert_ngram(v, ng, words, frequency) ==
    IF words = <<>> THEN [ngrams |-> ng, err |-> "IndexError"]
    ELSE [ngrams |-> IF v = "trie" THEN insert_ngram(ng, words, frequency)
                     ELSE gram_insert_ngram(ng, words, frequency),
          err |-> "none"]

\* load_ngrams on the lines of a file: the table after the call and the
\* exception that ended it, if one did.
RECURSIVE load_ngrams(_, _, _)
load_ngrams(v, ng, arquivo) ==
    IF arquivo = <<>> THEN [ngrams |-> ng, err |-> "none"]
    ELSE LET parts == split(strip(Head(arquivo)))
         IN IF Len(parts) < 3 THEN load_ngrams(v, ng, Tail(arquivo))
            ELSE IF ~parse_int(parts[1]).ok
            THEN [ngrams |-> ng, err |-> "ValueError"]
            ELSE LET r == call_insert_ngram(v, ng, words_of(parts),
                                            parse_int(parts[1]).value)
                 IN IF r.err # "none" THEN r
                    ELSE load_ngrams(v, r.ngrams, Tail(arquivo))

---------------------------------------------------------------------------
\* The inputs.

\* The words offered to insert.
WordInputs ==
    { <<"a">>, <<"e">>, <<"a", "e">>, <<"e", "a">>, <<"a", " ", "e">> }

\* The word lists offered to insert_ngram: two with the leading word "a"
\* and one with the leading word "E" U+00E9.
NgramInputs ==
    { << <<"a">> >>,
      << <<"a">>, <<"e">> >>,
      << <<"E", "e_acute">>, <<"a">> >> }

\* The frequencies offered to insert_ngram.
Frequencies == {1, 2}

\* A word list file of twelve words that all start with "a", unsorted.
HeadFile ==
    << <<"a", "e", "e">>, <<"a">>, <<"a", "a", "a", "a">>, <<"a", "e">>,
       <<"a", "a", "e">>, <<"a", "a">>, <<"a", "a", "e", "a">>,
       <<"a", "e", "a">>, <<"a", "a", "a">>, <<"a", "a", "e", "e">>,
       <<"a", "a", "a", "e">>, <<"a", "e", "a", "a">> >>

\* The word list files: HeadFile, and one with a padded line, a blank line
\* and a line of two words.
SampleFiles ==
    { HeadFile,
      << <<" ", "e", " ">>, <<>>, <<" ">>, <<"a", " ", "e">> >> }

\* The lines of the n-gram corpus files: two well-formed records, one with
\* an accented leading word, a record of three tokens, one whose first
\* token is no integer, one of two tokens, and a blank line.
Marker == <<" ", "|", " ", "|", " ", "|", " ", "|">>

NgramLines ==
    { <<"2", " ", "a", " ", "e">> \o Marker,
      <<"1", " ", "a">> \o Marker,
      <<"1", "2", " ", "E", "e_acute", " ", "a">> \o Marker,
      <<"1", " ", "a", " ", "|">>,
      <<"x", " ", "a", " ", "e">> \o Marker,
      <<"1", " ", "a">>,
      <<>> }

\* The n-gram corpus files: one or two lines.
NgramFiles ==
    { <<l>> : l \in NgramLines } \cup { <<l, m>> : l \in NgramLines, m \in NgramLines }

\* The texts offered to get_suggestions in every state (the words inserted
\* so far are offered too): texts with no token, with one token, with
\* surrounding whitespace and with two tokens, and the accented leading
\* word of an n-gram, whose normalized form is "ee".
Texts ==
    { <<>>, <<" ">>, <<"\t", " ">>, <<"a">>, <<"e">>, <<"e", "e">>,
      <<" ", "a">>, <<"a", " ">>, <<"e", " ", "a">>, <<"E", "e_acute">> }

TypeOK ==
    /\ variant \in {"trie", "main_gram"}
    /\ err \in {"none", "IndexError", "ValueError"}
    /\ op \in {"init", "insert", "insert_ngram", "load_sample_data",
               "load_ngrams", "get_suggestions"}
    /\ text \in Texts \cup inserted

Init ==
    /\ variant \in {"trie", "main_gram"}
    /\ root = (<<>> :> TrieNode)
    /\ ngrams = <<>>
    /\ inserted = {}
    /\ op = "init"
    /\ text = <<>>
    /\ result = <<>>
    /\ err = "none"

\* trie.insert(word)
Insert ==
    /\ err = "none"
    /\ \E word \in WordInputs :
        /\ Cardinality(inserted \cup {word}) <= MaxWords
        /\ root' = insert(root, word)
        /\ inserted' = inserted \cup {word}
    /\ op' = "insert"
    /\ text' = <<>>
    /\ result' = <<>>
    /\ UNCHANGED <<variant, ngrams, err>>

\* trie.insert_ngram(words, frequency)
InsertNgram ==
    /\ err = "none"
    /\ entries(ngrams) < MaxNgrams
    /\ \E words \in NgramInputs, frequency \in Frequencies :
        LET r == call_insert_ngram(variant, ngrams, words, frequency)
        IN /\ ngrams' = r.ngrams
           /\ err' = r.err
    /\ op' = "insert_ngram"
    /\ text' = <<>>
    /\ result' = <<>>
    /\ UNCHANGED <<variant, root, inserted>>

\* load_sample_data(), run once, on the empty trie.
LoadSampleData ==
    /\ err = "none"
    /\ inserted = {}
    /\ \E arquivo \in SampleFiles :
        /\ root' = load_sample_data(root, arquivo)
        /\ inserted' = { strip(arquivo[i]) : i \in 1..Len(arquivo) } \ {<<>>}
    /\ op' = "load_sample_data"
    /\ text' = <<>>
    /\ result' = <<>>
    /\ UNCHANGED <<variant, ngrams, err>>

\* load_ngrams(), run once, on the empty table.
LoadNgrams ==
    /\ err = "none"
    /\ entries(ngrams) = 0
    /\ \E arquivo \in NgramFiles :
        LET r == load_ngrams(variant, ngrams, arquivo)
        IN /\ ngrams' = r.ngrams
           /\ err' = r.err
    /\ op' = "load_ngrams"
    /\ text' = <<>>
    /\ result' = <<>>
    /\ UNCHANGED <<variant, root, inserted>>

\* trie.get_suggestions(prefix)
GetSuggestions ==
    /\ err = "none"
    /\ \E prefix \in Texts \cup inserted :
        /\ text' = prefix
        /\ result' = get_suggestions(variant, root, ngrams, prefix)
        /\ root' = tree_after_query(root, prefix)
        /\ ngrams' = table_after_query(ngrams, prefix)
    /\ op' = "get_suggestions"
    /\ UNCHANGED <<variant, inserted, err>>

\* main.py: trie.get_suggestions(prefix). There is no n-gram table.
MainGetSuggestions ==
    /\ variant = "main"
    /\ \E prefix \in Texts \cup inserted :
        /\ text' = prefix
        /\ result' = main_get_suggestions(root, prefix)
    /\ op' = "get_suggestions"
    /\ UNCHANGED <<variant, root, ngrams, inserted, err>>

Next ==
    \/ Insert
    \/ InsertNgram
    \/ LoadSampleData
    \/ LoadNgrams
    \/ GetSuggestions

Spec == Init /\ [][Next]_vars

\* main.py, the trie-only variant: the same TrieNode, insert,
\* _collect_suggestions and load_sample_data, and its own get_suggestions.
MainInit ==
    /\ variant = "main"
    /\ root = (<<>> :> TrieNode)
    /\ ngrams = <<>>
    /\ inserted = {}
    /\ op = "init"
    /\ text = <<>>
    /\ result = <<>>
    /\ err = "none"

MainNext ==
    \/ Insert
    \/ LoadSampleData
    \/ MainGetSuggestions

MainSpec == MainInit /\ [][MainNext]_vars

---------------------------------------------------------------------------
\* The vocabulary of the properties, stated on the text, on the history
\* `inserted` and on the table, without the operators of the query.

Range(s) == { s[i] : i \in 1..Len(s) }

MaxOf(S) == CHOOSE x \in S : \A y \in S : y <= x

MinOf(S) == CHOOSE x \in S : \A y \in S : x <= y

\* The positions of s that hold no whitespace.
NonSpace(s) == { i \in 1..Len(s) : ~IsSpace(s[i]) }

\* s has zero whitespace-separated tokens.
NoToken(s) == NonSpace(s) = {}

\* The whole stripped text, for a text with a token.
Stripped(s) == SubSeq(s, MinOf(NonSpace(s)), MaxOf(NonSpace(s)))

\* The final token of a text with a token: the longest run without
\* whitespace that ends at the last such position.
LastToken(s) ==
    LET e == MaxOf(NonSpace(s))
        b == MinOf({ j \in 1..e : \A k \in j..e : ~IsSpace(s[k]) })
    IN SubSeq(s, b, e)

\* The inserted words that start with the token.
Matches(token) == { w \in inserted : StartsWith(w, token) }

\* What is left of w behind its first n characters.
Rest(w, n) == SubSeq(w, n + 1, Len(w))

\* a sorts before b: shorter first, then by code points.
Before(a, b) ==
    \/ Len(a) < Len(b)
    \/ /\ Len(a) = Len(b)
       /\ \E k \in 1..Len(a) :
            /\ \A j \in 1..(k - 1) : a[j] = b[j]
            /\ CodePoint(a[k]) < CodePoint(b[k])

\* A get_suggestions call has just returned `result` for `text`.
Queried == op = "get_suggestions"

\* A query whose text has a token.
QueriedToken == Queried /\ ~NoToken(text)

\* The bucket of the table under the last token of the text.
Bucket == ngrams_get(ngrams, LastToken(text))

\* The number of elements of `result` in front of the n-gram phrases, and
\* those elements: the trie-derived candidates.
NTrie == Len(result) - Len(Bucket)

TriePart == SubSeq(result, 1, NTrie)

---------------------------------------------------------------------------
\* C1 as stated: after any inserts, the result of get_suggestions(w), for
\* every inserted word w (any non-empty string), holds w among its
\* trie-derived candidates.
C1_ReflexiveAnyWord ==
    (Queried /\ text \in inserted) => text \in Range(TriePart)

\* C1, amended: for every inserted word w that holds no whitespace
\* character, the result of get_suggestions(w) holds w among its
\* trie-derived candidates.
C1_Reflexive ==
    (Queried /\ text \in inserted /\ NonSpace(text) = 1..Len(text))
        => (NTrie >= 1 /\ text \in Range(TriePart))

\* An inserted word was queried and came back with a longer completion.
C1_Witness ==
    /\ Queried /\ text \in inserted /\ NonSpace(text) = 1..Len(text)
    /\ NTrie >= 2
    /\ text \in Range(TriePart)

\* C2: get_suggestions returns the empty sequence for a text with zero
\* whitespace-separated tokens, whatever was loaded, in both variants.
C2_EmptyQuery == (Queried /\ NoToken(text)) => result = <<>>

\* A text of whitespace only was queried with words and n-grams loaded.
C2_Witness ==
    /\ Queried /\ NoToken(text) /\ text # <<>>
    /\ inserted # {} /\ DOMAIN ngrams # {}
    /\ result = <<>>

\* C3: when no inserted word starts with the last token (the walk misses an
\* edge), the result is exactly the phrases of the table's bucket under the
\* last token, in the bucket's order, and empty when the key is absent.
C3_PrefixMiss ==
    (QueriedToken /\ Matches(LastToken(text)) = {})
        => result = phrases(Bucket)

\* A prefix miss returned the phrases of a bucket of two entries.
C3_Witness ==
    /\ QueriedToken /\ Matches(LastToken(text)) = {}
    /\ inserted # {}
    /\ Len(result) = 2
    /\ result = phrases(Bucket)

\* The number of trie-derived candidates the text has: one for each inserted
\* word that starts with its last token.
NCandidates == Cardinality(Matches(LastToken(text)))

\* result is `n` elements followed by every phrase of the bucket.
HeadThenBucket(n) ==
    /\ Len(result) = n + Len(Bucket)
    /\ SubSeq(result, n + 1, Len(result)) = phrases(Bucket)

\* C4 as stated: in both variants, when the walk succeeds the result is the
\* candidates cut to K followed by the whole bucket.
C4_CutInBothVariants ==
    (QueriedToken /\ NCandidates > 0)
        => HeadThenBucket(IF NCandidates > K THEN K ELSE NCandidates)

\* C4, amended: when the walk succeeds the result is the ranked candidates,
\* cut to K = 10 in trie.py and uncut in main_gram.py, followed by the whole
\* n-gram phrase list of the last token; nothing is de-duplicated.
C4_Concatenation ==
    (QueriedToken /\ NCandidates > 0)
        => HeadThenBucket(IF variant = "trie" /\ NCandidates > K
                          THEN K ELSE NCandidates)

\* trie.py cut more than K candidates and the bucket repeats one of them.
C4_Witness ==
    /\ QueriedToken /\ variant = "trie"
    /\ NCandidates > K
    /\ HeadThenBucket(K)
    /\ \E i \in 1..K, j \in (K + 1)..Len(result) : result[i] = result[j]

\* The candidates of the text: the text as passed, completed by what each
\* matching word has behind the last token.
Candidates ==
    { text \o Rest(w, Len(LastToken(text))) : w \in Matches(LastToken(text)) }

\* C5: the trie-derived candidates of the result are in ascending order of
\* (len(c) - len(p), c), and they are the smallest candidates under that
\* order.
C5_Ranking ==
    QueriedToken =>
        /\ \A i, j \in 1..NTrie : i < j => Before(result[i], result[j])
        /\ Range(TriePart) \subseteq Candidates
        /\ \A c \in Candidates \ Range(TriePart) :
               \A i \in 1..NTrie : Before(result[i], c)

\* More than K candidates were ranked and cut, and a longer candidate that
\* sorts alphabetically first stands behind a shorter one.
C5_Witness ==
    /\ QueriedToken /\ NCandidates > K /\ NTrie = K
    /\ Candidates \ Range(TriePart) # {}
    /\ \E i, j \in 1..NTrie :
           i < j /\ Len(result[i]) < Len(result[j])
                 /\ str_lt(result[j], result[i])

\* C6: every bucket lists its entries in non-increasing frequency, and
\* entries of equal frequency in the order they were inserted.
C6_BucketOrder ==
    \A k \in DOMAIN ngrams :
        \A i, j \in 1..Len(ngrams[k]) :
            i < j => \/ ngrams[k][i].freq > ngrams[k][j].freq
                     \/ /\ ngrams[k][i].freq = ngrams[k][j].freq
                        /\ ngrams[k][i].seq < ngrams[k][j].seq

\* A bucket whose later, more frequent entry was moved to the front.
C6_Witness ==
    \E k \in DOMAIN ngrams :
        /\ Len(ngrams[k]) = 2
        /\ ngrams[k][1].seq > ngrams[k][2].seq
        /\ ngrams[k][1].phrase # ngrams[k][2].phrase

\* C7: in trie.py, which normalizes at insertion, for every leading word w
\* of an inserted n-gram the query for the normalized form of w returns the
\* same n-gram phrases as the query for w (compared where no inserted word
\* starts with either, so that the result is the n-gram phrase list alone).
C7_NormalizedKeyFindsBucket ==
    \A w \in DOMAIN ngrams :
        (variant = "trie" /\ Matches(w) = {} /\ Matches(normalize(w)) = {})
            => get_suggestions(variant, root, ngrams, normalize(w))
                   = get_suggestions(variant, root, ngrams, w)

\* C8: every trie-derived candidate is the whole stripped text followed by
\* what an inserted word has behind the last token.
C8_PrefixRooting ==
    QueriedToken =>
        \A i \in 1..NTrie :
            \E w \in Matches(LastToken(text)) :
                result[i] = Stripped(text) \o Rest(w, Len(LastToken(text)))

\* C9: no operation of the load and query path ends in an exception.
C9_NoError == err = "none"

\* C10: inserting a word that was inserted before leaves the whole tree as
\* it is.
C10_InsertIdempotent == \A w \in inserted : insert(root, w) = root

\* A word and a longer word that starts with it were both inserted, so the
\* second insert of either walks nodes the other one wrote.
C10_Witness ==
    /\ op = "insert"
    /\ \E w, v \in inserted : w # v /\ StartsWith(v, w)
    /\ \A w \in inserted : insert(root, w) = root

\* The number of character edges from the node at path p down to each
\* terminal node at or below it.
TerminalDistances(t, p) ==
    { Len(q) - Len(p) : q \in { r \in DOMAIN t : t[r].is_end /\ StartsWith(r, p) } }

\* d1 is not greater than d2, over the integers and float('inf').
NotGreater(d1, d2) == d2 = Inf \/ (d1 # Inf /\ d1 <= d2)

\* Every node's min_distance is the least distance to a terminal node at or
\* below it (float('inf') when there is none: the root of the empty trie).
MinDistanceExact(t) ==
    \A p \in DOMAIN t :
        t[p].min_distance =
            IF TerminalDistances(t, p) = {} THEN Inf
            ELSE MinOf(TerminalDistances(t, p))

\* C11: after any inserts of non-empty words every node's min_distance is
\* the least number of character edges to a terminal node at or below it (0
\* exactly at the terminal nodes, the shortest inserted word's length at the
\* root), and no step raises the min_distance of a node.
C11_MinDistance ==
    /\ [](/\ MinDistanceExact(root)
          /\ \A p \in DOMAIN root : (root[p].min_distance = 0) <=> root[p].is_end
          /\ inserted # {} =>
                 root[<<>>].min_distance = MinOf({ Len(w) : w \in inserted }))
    /\ [][\A p \in DOMAIN root :
              NotGreater(root'[p].min_distance, root[p].min_distance)]_vars

\* An insert of a shorter word lowered the min_distance the root had and
\* made an inner node terminal.
C11_Witness ==
    /\ op = "insert"
    /\ \E w, v \in inserted : Len(w) < Len(v) /\ StartsWith(v, w)
    /\ \E p \in DOMAIN root : root[p].is_end /\ root[p].children # <<>>
    /\ MinDistanceExact(root)

\* C12: a get_suggestions call leaves the trie (nodes, children, is_end,
\* min_distance) and the n-gram table (its keys and every bucket) as they
\* were, also when the last token is no key of the table.
C12_QueryReadOnly ==
    [][op' = "get_suggestions" => (root' = root /\ ngrams' = ngrams)]_vars

\* A query ran on a loaded engine with a last token that words start with
\* and that is no key of the table.
C12_Witness ==
    /\ QueriedToken
    /\ inserted # {} /\ DOMAIN ngrams # {}
    /\ LastToken(text) \notin DOMAIN ngrams
    /\ Matches(LastToken(text)) # {}

\* The inserted words that start with the text as passed.
MainMatches == { w \in inserted : StartsWith(w, text) }

\* C13: in main.py, get_suggestions(prefix) returns each inserted word that
\* starts with prefix exactly once and nothing else, shortest first and then
\* by code points, with no cut; it returns [] when no inserted word starts
\* with prefix.
C13_MainExactMatches ==
    Queried =>
        /\ Range(result) = MainMatches
        /\ Len(result) = Cardinality(MainMatches)
        /\ \A i, j \in 1..Len(result) : i < j => Before(result[i], result[j])

\* main.py returned more than K words, a longer one that sorts
\* alphabetically first behind a shorter one.
C13_Witness ==
    /\ Queried /\ variant = "main"
    /\ Len(result) > K
    /\ Range(result) = MainMatches
    /\ \E i, j \in 1..Len(result) :
           i < j /\ Len(result[i]) < Len(result[j])
                 /\ str_lt(result[j], result[i])

\* The words of S listed shortest first and then by code points, and the
\* same list backwards.
RECURSIVE Ascending(_)
Ascending(S) ==
    IF S = {} THEN <<>>
    ELSE LET w == CHOOSE w \in S : \A v \in S \ {w} : Before(w, v)
         IN <<w>> \o Ascending(S \ {w})

Descending(S) ==
    LET a == Ascending(S) IN [i \in 1..Len(a) |-> a[Len(a) + 1 - i]]

\* The tree an empty trie becomes when the words are inserted in the order
\* of the list.
TreeOf(words) == insert_all(<<>> :> TrieNode, words)

\* The trie-derived part of get_suggestions(prefix) on the tree t: the
\* result with an empty n-gram table.
TrieDerived(t, prefix) == get_suggestions(variant, t, <<>>, prefix)

\* C14: whatever the order in which the words were inserted, the
\* trie-derived part of get_suggestions(text) is the one the same words give
\* when inserted shortest first, and when inserted in the opposite order.
C14_OrderIndependent ==
    QueriedToken =>
        /\ TriePart = TrieDerived(TreeOf(Ascending(inserted)), text)
        /\ TriePart = TrieDerived(TreeOf(Descending(inserted)), text)

\* A query returned two candidates from a tree whose children stand in
\* another order than in the tree of the ascending insertion, so that the
\* two traversals meet the candidates in different orders.
C14_Witness ==
    /\ QueriedToken /\ NTrie >= 2
    /\ root # TreeOf(Ascending(inserted))
    /\ LET w == walk(root, <<>>, LastToken(text), 1)
       IN complete_unsorted(root, w.node, text)
              # complete_unsorted(TreeOf(Ascending(inserted)), w.node, text)
    /\ TriePart = TrieDerived(TreeOf(Ascending(inserted)), text)

=============================================================================
